---- MODULE Spec2Model ----
(***************************************************************************)
(* Model of the WMS CSV/XLSX -> SQLite loader (main.py, src/loader.py,     *)
(* src/io_readers.py).                                                     *)
(*                                                                         *)
(* Text is a sequence of one-character strings, so that strip(), lower()   *)
(* and the regular expressions of the source are computed, not assumed.    *)
(* A null cell (None / NaN / pd.NA) is the one-element sequence Null,      *)
(* whose element is not a character.                                       *)
(***************************************************************************)
EXTENDS Integers, Sequences, FiniteSets, TLC

VARIABLES
    big0,       \* the frame handed to the function under study (history)
    big,        \* the frame as the function left it
    phase,      \* position of the batch-pass function specifications
    wRows, wCols, wChunk, wStart, wBatches, wpc,   \* to_sql's chunk loop
    sPath, sResult,                                \* detect_header_row
    mpc, tbl, folderExists, files, fidx, ok, fail, frames, results,
    stageDb, finalDb,                              \* main / load_folder_to_table
    pc, attempt, stage, paths, inodes, handle, prevFinal, os   \* _copy_replace

fnVars == <<big0, big, phase>>
wrVars == <<wRows, wCols, wChunk, wStart, wBatches, wpc>>
snVars == <<sPath, sResult>>
ldVars == <<mpc, tbl, folderExists, files, fidx, ok, fail, frames, results, stageDb, finalDb>>
pbVars == <<pc, attempt, stage, paths, inodes, handle, prevFinal, os>>
vars == <<fnVars, wrVars, snVars, ldVars, pbVars>>

-----------------------------------------------------------------------------
(* Bounds of the model.                                                    *)
MaxFallbackRows == 2
MaxDedupRows == 3
MaxWriteRows == 6
MaxWriteCols == 3
MaxChunk == 4
MaxParamCeiling == 6
MaxFiles == 2
NChunks == 2
MaxReconcileRows == 2

-----------------------------------------------------------------------------
(* Text.                                                                   *)
Null == <<"<NA>">>
Empty == <<>>

Whitespace == {" ", "TAB"}

UpperChars == <<"Cedilla", "Atilde", "A", "B", "C", "D", "E", "F", "G", "H", "I", "J", "K", "L", "M", "N", "O", "P", "Q", "R", "S", "T", "U", "V", "W", "X", "Y", "Z">>
LowerChars == <<"cedilla", "atilde", "a", "b", "c", "d", "e", "f", "g", "h", "i", "j", "k", "l", "m", "n", "o", "p", "q", "r", "s", "t", "u", "v", "w", "x", "y", "z">>
Digits == {"0", "1", "2", "3", "4", "5", "6", "7", "8", "9"}

\* str.lower() on one character
LowerChar(c) ==
    IF \E i \in 1..Len(UpperChars) : UpperChars[i] = c
    THEN LowerChars[CHOOSE i \in 1..Len(UpperChars) : UpperChars[i] = c]
    ELSE c

\* str.lower()
Lower(s) == [i \in 1..Len(s) |-> LowerChar(s[i])]

RECURSIVE LStrip(_)
LStrip(s) == IF s # <<>> /\ Head(s) \in Whitespace THEN LStrip(Tail(s)) ELSE s

RECURSIVE RStrip(_)
RStrip(s) == IF s # <<>> /\ s[Len(s)] \in Whitespace THEN RStrip(SubSeq(s, 1, Len(s) - 1)) ELSE s

\* str.strip()
Strip(s) == RStrip(LStrip(s))

\* str.startswith / str.endswith / `in`
StartsWith(s, p) == Len(p) <= Len(s) /\ SubSeq(s, 1, Len(p)) = p
EndsWith(s, p) == Len(p) <= Len(s) /\ SubSeq(s, Len(s) - Len(p) + 1, Len(s)) = p
Contains(s, p) == \E i \in 1..(Len(s) - Len(p) + 1) : SubSeq(s, i, i + Len(p) - 1) = p

\* str.replace(c, "") for every c in chars
RemoveChars(s, chars) == SelectSeq(s, LAMBDA c : c \notin chars)

-----------------------------------------------------------------------------
(* Column names.                                                           *)
ColTarefa == <<"T", "a", "r", "e", "f", "a">>
ColTipo == <<"T", "i", "p", "o">>
ColOnda == <<"O", "n", "d", "a">>
ColDataInicial == <<"D", "a", "t", "a", " ", "i", "n", "i", "c", "i", "a", "l">>
ColDataFinal == <<"D", "a", "t", "a", " ", "f", "i", "n", "a", "l">>
ColItem == <<"I", "t", "e", "m">>
ColOrigem == <<"O", "r", "i", "g", "e", "m">>
ColDestino == <<"D", "e", "s", "t", "i", "n", "o">>
ColQtd == <<"Q", "t", "d", ".">>
ColEmb == <<"E", "m", "b", ".">>
ColExec == <<"E", "x", "e", "c", ".">>
ColPrio == <<"P", "r", "i", "o">>
ColLib == <<"L", "i", "b", ".">>
ColTarBloq == <<"T", "a", "r", ".", " ", "b", "l", "o", "q", ".">>
ColPrioB == <<"P", "r", "i", "o", ".", "B">>
ColBloqs == <<"B", "l", "o", "q", "s", ".">>
ColPedido == <<"P", "e", "d", "i", "d", "o">>
ColAutReceb == <<"A", "u", "t", ".", " ", "r", "e", "c", "e", "b", ".">>
ColDataTarefa == <<"D", "a", "t", "a", " ", "t", "a", "r", "e", "f", "a">>
ColLote == <<"L", "o", "t", "e">>
ColAlmoxarifado == <<"A", "l", "m", "o", "x", "a", "r", "i", "f", "a", "d", "o">>
ColCarga == <<"C", "a", "r", "g", "a">>
ColUnitizador == <<"U", "n", "i", "t", "i", "z", "a", "d", "o", "r">>
ColSourceFile == <<"_", "s", "o", "u", "r", "c", "e", "_", "f", "i", "l", "e">>
ColSourceSheet == <<"_", "s", "o", "u", "r", "c", "e", "_", "s", "h", "e", "e", "t">>
ColSourceMtime == <<"_", "s", "o", "u", "r", "c", "e", "_", "m", "t", "i", "m", "e">>
ColLoadedAt == <<"_", "l", "o", "a", "d", "e", "d", "_", "a", "t">>
ColArquivoOrigem == <<"a", "r", "q", "u", "i", "v", "o", "_", "o", "r", "i", "g", "e", "m">>
ColDtCarga == <<"d", "t", "_", "c", "a", "r", "g", "a">>
ColDtRef == <<"d", "t", "_", "r", "e", "f">>

EXPECTED_WMS_COLUMNS ==
    << ColTarefa, ColTipo, ColOnda, ColDataInicial, ColDataFinal, ColItem,
       ColOrigem, ColDestino, ColQtd, ColEmb, ColExec, ColPrio, ColLib,
       ColTarBloq, ColPrioB, ColBloqs, ColPedido, ColAutReceb, ColDataTarefa,
       ColLote, ColAlmoxarifado, ColCarga, ColUnitizador >>

TECH_COLUMNS == << ColSourceFile, ColSourceSheet, ColSourceMtime, ColLoadedAt >>

-----------------------------------------------------------------------------
(* Frames: a DataFrame is its column list and its rows, each row a         *)
(* sequence of cells in column order.                                      *)
NoFrame == [cols |-> <<>>, rows |-> <<>>]

Range(s) == {s[i] : i \in 1..Len(s)}
HasCol(df, c) == c \in Range(df.cols)
ColIdx(df, c) == CHOOSE i \in 1..Len(df.cols) : df.cols[i] = c
NRows(df) == Len(df.rows)

\* The sequence s itself, held as an explicit tuple (a function written
\* [i \in 1..n |-> e] is otherwise re-evaluated at every application).
Tuple(s) == s \o <<>>

\* The sequences over S of length at most n.
SeqsUpTo(S, n) == UNION {[1..k -> S] : k \in 0..n}

-----------------------------------------------------------------------------
(* _is_missing_text and _apply_cross_date_fallback (loader.py).            *)

\* astype(str) of one cell
AsStr(v) == IF v = Null THEN <<"<", "N", "A", ">">> ELSE v

MissingTokens ==
    { <<"n", "o", "n", "e">>, <<"n", "a", "n">>, <<"n", "a", "t">>, <<"n", "u", "l", "l">> }

\* the same test without .str.lower(): upper-case tokens count as present
IsMissingTextCaseSensitive(v) ==
    \/ v = Null
    \/ Strip(AsStr(v)) = Empty
    \/ Strip(AsStr(v)) \in MissingTokens

\* _is_missing_text, for one cell of the series
IsMissingText(v) ==
    \/ v = Null
    \/ Strip(AsStr(v)) = Empty
    \/ Lower(Strip(AsStr(v))) \in MissingTokens

\* _apply_cross_date_fallback: the frame it leaves.  `di` and `dfinal` are
\* taken before the first assignment; the rows the second assignment reads
\* (fill_df) are disjoint from the rows the first one wrote (fill_di), so a
\* view and a copy of the column give the same result.
ApplyCrossDateFallback(df) ==
    IF ~HasCol(df, ColDataInicial) \/ ~HasCol(df, ColDataFinal)
    THEN df
    ELSE LET i == ColIdx(df, ColDataInicial)
             j == ColIdx(df, ColDataFinal)
             missing_di == [r \in 1..NRows(df) |-> IsMissingText(df.rows[r][i])]
             missing_df == [r \in 1..NRows(df) |-> IsMissingText(df.rows[r][j])]
             fill_di == [r \in 1..NRows(df) |-> missing_di[r] /\ ~missing_df[r]]
             fill_df == [r \in 1..NRows(df) |-> missing_df[r] /\ ~missing_di[r]]
             rows1 == Tuple([r \in 1..NRows(df) |->
                          IF fill_di[r]
                          THEN [df.rows[r] EXCEPT ![i] = df.rows[r][j]]
                          ELSE df.rows[r]])
             rows2 == Tuple([r \in 1..NRows(df) |->
                          IF fill_df[r]
                          THEN [rows1[r] EXCEPT ![j] = df.rows[r][i]]
                          ELSE rows1[r]])
         IN  [df EXCEPT !.rows = rows2]

-----------------------------------------------------------------------------
(* The dedup block of load_folder_to_table (loader.py).                    *)

\* the literal list of the source
DedupColsList ==
    << ColTarefa, ColTipo, ColOnda, ColDataInicial, ColDataFinal, ColItem,
       ColOrigem, ColDestino, ColQtd, ColAlmoxarifado, ColCarga, ColUnitizador >>

\* dedup_cols = [c for c in dedup_cols if c in big.columns]
DedupCols(df) == SelectSeq(DedupColsList, LAMBDA c : HasCol(df, c))

\* the value tuple of row r over `subset`; the whole row when subset is empty
\* (DataFrame.drop_duplicates() without subset).  pandas compares nulls equal.
RowKey(df, subset, r) ==
    IF subset = <<>>
    THEN df.rows[r]
    ELSE [k \in 1..Len(subset) |-> df.rows[r][ColIdx(df, subset[k])]]

\* keep="last" instead of pandas' default keep="first"
KeepsRowLast(df, subset, r) ==
    \A q \in (r + 1)..NRows(df) : RowKey(df, subset, q) # RowKey(df, subset, r)

\* DataFrame.drop_duplicates keeps the first row of every key
KeepsRow(df, subset, r) ==
    \A q \in 1..(r - 1) : RowKey(df, subset, q) # RowKey(df, subset, r)

\* big.drop_duplicates(subset=dedup_cols) / big.drop_duplicates()
DropDuplicates(df) ==
    LET subset == DedupCols(df)
        kept == SelectSeq([r \in 1..NRows(df) |-> r], LAMBDA r : KeepsRow(df, subset, r))
    IN  [df EXCEPT !.rows = Tuple([k \in 1..Len(kept) |-> df.rows[kept[k]]])]

-----------------------------------------------------------------------------
(* Idle values of the variables a specification does not use.              *)
FnIdle == big0 = NoFrame /\ big = NoFrame /\ phase = "idle"
WrIdle == wRows = 0 /\ wCols = 0 /\ wChunk = 0 /\ wStart = 0 /\ wBatches = <<>> /\ wpc = "idle"
SnIdle == sPath = <<>> /\ sResult = <<>>
LdIdle ==
    /\ mpc = "idle" /\ tbl = 0 /\ folderExists = <<>> /\ files = <<>> /\ fidx = 0
    /\ ok = 0 /\ fail = 0 /\ frames = <<>> /\ results = <<>>
    /\ stageDb = <<>> /\ finalDb = <<>>
PbIdle ==
    /\ pc = <<>> /\ attempt = <<>> /\ stage = <<>> /\ paths = <<>>
    /\ inodes = <<>> /\ handle = <<>> /\ prevFinal = <<>> /\ os = ""

-----------------------------------------------------------------------------
(* Specification of _apply_cross_date_fallback on bounded frames.          *)
IsoDate == <<"2", "0", "2", "4", "-", "0", "2", "-", "0", "2", " ", "0", "8", ":", "0", "0", ":", "0", "0">>
TextX == <<"x">>

\* date cells: null, empty, blank, padded and mixed-case null tokens, values
FallbackCells ==
    { Null, Empty, <<" ">>, <<"N", "a", "N", " ">>, <<" ", "n", "u", "l", "l">>, IsoDate, TextX }

FallbackFrames ==
    {[cols |-> <<ColDataInicial, ColDataFinal>>, rows |-> rs] :
        rs \in SeqsUpTo(FallbackCells \X FallbackCells, MaxFallbackRows)}
    \cup
    {[cols |-> <<ColDataInicial>>, rows |-> rs] :
        rs \in SeqsUpTo({<<c>> : c \in FallbackCells}, MaxFallbackRows)}

InitFallback ==
    /\ big0 \in FallbackFrames
    /\ big = big0
    /\ phase = "consolidated"
    /\ WrIdle /\ SnIdle /\ LdIdle /\ PbIdle

CallApplyCrossDateFallback ==
    /\ phase = "consolidated"
    /\ big' = ApplyCrossDateFallback(big)
    /\ phase' = "fallback_done"
    /\ UNCHANGED <<big0, wrVars, snVars, ldVars, pbVars>>

NextFallback == CallApplyCrossDateFallback

SpecFallback == InitFallback /\ [][NextFallback]_vars

\* The claim's own reading of "missing": null, empty or whitespace only, or
\* one of none/nan/nat/null in any letter case (surrounding blanks ignored).
C10_Missing(v) ==
    \/ v = Null
    \/ \A k \in 1..Len(v) : v[k] \in Whitespace
    \/ \E t \in { <<"n", "o", "n", "e">>, <<"n", "a", "n">>, <<"n", "a", "t">>, <<"n", "u", "l", "l">> } :
          Lower(Strip(v)) = t

\* C10: for every row, _apply_cross_date_fallback copies the start date into a
\* missing end date, the end date into a missing start date, and leaves a row
\* with both dates present or both missing unchanged.
C10_CrossDateFallback ==
    (phase = "fallback_done" /\ HasCol(big0, ColDataInicial) /\ HasCol(big0, ColDataFinal)) =>
        /\ big.cols = big0.cols
        /\ NRows(big) = NRows(big0)
        /\ \A r \in 1..NRows(big0) :
              LET i == ColIdx(big0, ColDataInicial)
                  j == ColIdx(big0, ColDataFinal)
                  s0 == big0.rows[r][i]
                  e0 == big0.rows[r][j]
                  s1 == big.rows[r][i]
                  e1 == big.rows[r][j]
              IN  /\ (~C10_Missing(s0) /\ C10_Missing(e0)) => (e1 = s0 /\ s1 = s0)
                  /\ (C10_Missing(s0) /\ ~C10_Missing(e0)) => (s1 = e0 /\ e1 = e0)
                  /\ (C10_Missing(s0) <=> C10_Missing(e0)) => big.rows[r] = big0.rows[r]

\* C10 witness: a frame the fallback has filled in both directions, one row
\* lacking its end date (a mixed-case, padded null token) and one its start.
C10_Witness ==
    /\ phase = "fallback_done"
    /\ HasCol(big0, ColDataInicial) /\ HasCol(big0, ColDataFinal)
    /\ \E r, q \in 1..NRows(big0) :
          /\ big0.rows[r] = <<IsoDate, <<"N", "a", "N", " ">> >>
          /\ big.rows[r] = <<IsoDate, IsoDate>>
          /\ big0.rows[q] = <<Null, TextX>>
          /\ big.rows[q] = <<TextX, TextX>>

-----------------------------------------------------------------------------
(* Specification of the dedup block on bounded frames.                     *)
Txt1 == <<"1">>
Txt2 == <<"2">>
TxtA == <<"a">>
TxtB == <<"b">>

\* consolidated layout: the twelve key columns, then Lote and dt_carga
DedupLayout == DedupColsList \o <<ColLote, ColDtCarga>>

\* rows that differ in Tarefa, Data inicial (keys) and Lote (not a key)
DedupRow(t, d, l) ==
    [k \in 1..Len(DedupLayout) |->
        IF DedupLayout[k] = ColTarefa THEN t
        ELSE IF DedupLayout[k] = ColDataInicial THEN d
        ELSE IF DedupLayout[k] = ColLote THEN l
        ELSE Null]

DedupFrames ==
    {[cols |-> DedupLayout, rows |-> rs] :
        rs \in SeqsUpTo({DedupRow(t, d, l) : t \in {Txt1, Txt2}, d \in {Null, IsoDate}, l \in {TxtA, TxtB}},
                        MaxDedupRows)}
    \cup
    {[cols |-> <<ColLote, ColDtCarga>>, rows |-> rs] :
        rs \in SeqsUpTo({TxtA, TxtB} \X {TxtA, TxtB}, MaxDedupRows)}

InitDedup ==
    /\ big0 \in DedupFrames
    /\ big = big0
    /\ phase = "consolidated"
    /\ WrIdle /\ SnIdle /\ LdIdle /\ PbIdle

CallDropDuplicates ==
    /\ phase = "consolidated"
    /\ big' = DropDuplicates(big)
    /\ phase' = "dedup_done"
    /\ UNCHANGED <<big0, wrVars, snVars, ldVars, pbVars>>

NextDedup == CallDropDuplicates

SpecDedup == InitDedup /\ [][NextDedup]_vars

\* The business key of the claim: the row's values in the twelve columns.
C9_Key(df, r) ==
    << df.rows[r][ColIdx(df, ColTarefa)], df.rows[r][ColIdx(df, ColTipo)],
       df.rows[r][ColIdx(df, ColOnda)], df.rows[r][ColIdx(df, ColDataInicial)],
       df.rows[r][ColIdx(df, ColDataFinal)], df.rows[r][ColIdx(df, ColItem)],
       df.rows[r][ColIdx(df, ColOrigem)], df.rows[r][ColIdx(df, ColDestino)],
       df.rows[r][ColIdx(df, ColQtd)], df.rows[r][ColIdx(df, ColAlmoxarifado)],
       df.rows[r][ColIdx(df, ColCarga)], df.rows[r][ColIdx(df, ColUnitizador)] >>

C9_AllKeyCols(df) ==
    {ColTarefa, ColTipo, ColOnda, ColDataInicial, ColDataFinal, ColItem, ColOrigem,
     ColDestino, ColQtd, ColAlmoxarifado, ColCarga, ColUnitizador} \subseteq Range(df.cols)

\* the rows of df that are the first of their key, in order
C9_FirstOccurrences(df) ==
    LET first == SelectSeq([r \in 1..NRows(df) |-> r],
                           LAMBDA r : \A q \in 1..(r - 1) : C9_Key(df, q) # C9_Key(df, r))
    IN  [k \in 1..Len(first) |-> df.rows[first[k]]]

\* C9: the Deduplicator's output is exactly the subsequence of the rows that
\* are the first occurrence of their 12-column business key: no longer than
\* the input, pairwise different keys, and unchanged by a second dedup.
C9_DedupFirstOccurrence ==
    (phase = "dedup_done" /\ C9_AllKeyCols(big0)) =>
        /\ big.cols = big0.cols
        /\ big.rows = C9_FirstOccurrences(big0)
        /\ NRows(big) <= NRows(big0)
        /\ \A r, q \in 1..NRows(big) : r # q => C9_Key(big, r) # C9_Key(big, q)
        /\ DropDuplicates(big) = big

\* C9 witness: three rows, the third repeating the key of the first with
\* another Lote; the dedup kept the first two, in order.
C9_Witness ==
    /\ phase = "dedup_done"
    /\ C9_AllKeyCols(big0)
    /\ big0.rows = <<DedupRow(Txt1, IsoDate, TxtA), DedupRow(Txt1, Null, TxtA), DedupRow(Txt1, IsoDate, TxtB)>>
    /\ big.rows = <<DedupRow(Txt1, IsoDate, TxtA), DedupRow(Txt1, Null, TxtA)>>

-----------------------------------------------------------------------------
(* The Table Writer: big.to_sql(table_name, conn, if_exists="replace",     *)
(* index=False, chunksize=chunksize) of load_folder_to_table.  The frame   *)
(* is its row and column counts; pandas inserts the rows in slices of      *)
(* chunksize rows, each slice one executemany batch.                       *)
Min(a, b) == IF a <= b THEN a ELSE b
Max(a, b) == IF a >= b THEN a ELSE b

\* the chunksize handed to to_sql: the caller's value, as it is
EffectiveChunk(chunksize, ncols) == chunksize

InitWrite ==
    /\ wRows \in 0..MaxWriteRows
    /\ wCols \in 1..MaxWriteCols
    /\ wChunk \in 1..MaxChunk
    /\ wStart = 0
    /\ wBatches = <<>>
    /\ wpc = "to_sql"
    /\ FnIdle /\ SnIdle /\ LdIdle /\ PbIdle

\* one slice of rows [wStart, wStart + chunksize) is inserted
InsertChunk ==
    /\ wpc = "to_sql"
    /\ wStart < wRows
    /\ LET n == Min(EffectiveChunk(wChunk, wCols), wRows - wStart)
       IN  /\ wBatches' = Append(wBatches, n)
           /\ wStart' = wStart + n
    /\ UNCHANGED <<wRows, wCols, wChunk, wpc, fnVars, snVars, ldVars, pbVars>>

\* conn.commit() after the last slice
Commit ==
    /\ wpc = "to_sql"
    /\ wStart >= wRows
    /\ wpc' = "committed"
    /\ UNCHANGED <<wRows, wCols, wChunk, wStart, wBatches, fnVars, snVars, ldVars, pbVars>>

NextWrite == InsertChunk \/ Commit

SpecWrite == InitWrite /\ [][NextWrite]_vars

\* C8: whatever the column count C, the store's bound-parameter ceiling P
\* and the requested batch size, no insert batch holds more than
\* max(1, P // C) rows.
C8_BatchWithinParameterCeiling ==
    \A P \in 1..MaxParamCeiling :
        \A k \in 1..Len(wBatches) : wBatches[k] <= Max(1, P \div wCols)

-----------------------------------------------------------------------------
(* The Format Sniffer: detect_header_row (io_readers.py).  A file is what  *)
(* the sniffer can observe of it: its suffix, whether it can be opened,    *)
(* how many sheets a workbook has, its first line or A1 cell, and what the *)
(* one-row probe parse with ";" yields (0: the parse raises).              *)
NoneValue == "None"
SheetTitle == "Planilha1"
Raised == [raised |-> TRUE, header_row |-> 0, delim |-> NoneValue, sheet |-> NoneValue]
Triple(h, d, s) == [raised |-> FALSE, header_row |-> h, delim |-> d, sheet |-> s]

\* _WF_HEADER_RE.search(text): wf0008|manuten[cç][aã]o de tarefas, IGNORECASE
WfHeaderSearch(text) ==
    LET l == Lower(text)
    IN  \/ Contains(l, <<"w", "f", "0", "0", "0", "8">>)
        \/ \E c \in {"c", "cedilla"}, a \in {"a", "atilde"} :
              Contains(l, <<"m", "a", "n", "u", "t", "e", "n", c, a, "o", " ", "d", "e", " ", "t", "a", "r", "e", "f", "a", "s">>)

\* _detect_csv_header: every failure is swallowed
DetectCsvHeader(f) ==
    LET header_row == IF f.opens /\ f.first # Empty /\ WfHeaderSearch(f.first) THEN 1 ELSE 0
        delim == IF f.probe = 0 THEN ";" ELSE IF f.probe <= 1 THEN "," ELSE ";"
    IN  <<header_row, delim>>

\* _detect_excel_header: load_workbook and worksheets[0] may raise
DetectExcelHeader(f) ==
    IF ~f.opens \/ f.sheets = 0
    THEN Raised
    ELSE IF f.first # Null /\ f.first # Empty /\ WfHeaderSearch(f.first)
         THEN Triple(1, NoneValue, SheetTitle)
         ELSE Triple(0, NoneValue, SheetTitle)

\* detect_header_row
DetectHeaderRow(f) ==
    IF f.suffix = ".csv"
    THEN Triple(DetectCsvHeader(f)[1], DetectCsvHeader(f)[2], NoneValue)
    ELSE IF f.suffix \in {".xlsx", ".xlsm"}
    THEN DetectExcelHeader(f)
    ELSE IF f.suffix = ".xls"
    THEN (IF DetectExcelHeader(f).raised THEN Triple(0, NoneValue, NoneValue) ELSE DetectExcelHeader(f))
    ELSE Triple(0, NoneValue, NoneValue)

BannerWf == <<"W", "F", "0", "0", "0", "8", " ", "-", " ", "x">>
BannerManut == <<"M", "a", "n", "u", "t", "e", "n", "Cedilla", "Atilde", "o", " ", "d", "e", " ", "T", "a", "r", "e", "f", "a", "s">>

SniffFiles ==
    { f \in [suffix : {".csv", ".xlsx", ".xlsm", ".xls", ".txt"},
             opens : BOOLEAN,
             sheets : {0, 1},
             first : {Null, Empty, ColTarefa, BannerWf, BannerManut},
             probe : {0, 1, 3}] :
        /\ (f.suffix = ".csv" => (f.sheets = 0 /\ f.first # Null))
        /\ (f.suffix # ".csv" => f.probe = 0)
        /\ (~f.opens => (f.probe = 0 /\ f.sheets = 0 /\ f.first = Empty)) }

InitSniff ==
    /\ sPath \in SniffFiles
    /\ sResult = <<>>
    /\ FnIdle /\ WrIdle /\ LdIdle /\ PbIdle

CallDetectHeaderRow ==
    /\ sResult = <<>>
    /\ sResult' = <<DetectHeaderRow(sPath)>>
    /\ UNCHANGED <<sPath, fnVars, wrVars, ldVars, pbVars>>

NextSniff == CallDetectHeaderRow

SpecSniff == InitSniff /\ [][NextSniff]_vars

\* C7: for a file of a supported extension detect_header_row never raises; it
\* returns (header row in {0,1}, delimiter or null, sheet or null), and
\* (0, null, null) for a workbook that cannot be opened.
C7_DetectNeverRaises ==
    (sResult # <<>> /\ sPath.suffix \in {".csv", ".xlsx", ".xlsm", ".xls"}) =>
        /\ ~sResult[1].raised
        /\ sResult[1].header_row \in {0, 1}
        /\ (sPath.suffix # ".csv" /\ ~sPath.opens) => sResult[1] = Triple(0, NoneValue, NoneValue)

-----------------------------------------------------------------------------
(* The Column Reconciler (io_readers.py).                                  *)

\* " ".join(text.split()) on a stripped text: runs of blanks become one space
RECURSIVE CollapseWhitespace(_)
CollapseWhitespace(s) ==
    IF s = <<>> THEN <<>>
    ELSE IF Head(s) \in Whitespace
         THEN (IF Len(s) > 1 /\ s[2] \in Whitespace
               THEN CollapseWhitespace(Tail(s))
               ELSE <<" ">> \o CollapseWhitespace(Tail(s)))
         ELSE <<Head(s)>> \o CollapseWhitespace(Tail(s))

\* _normalize_col_name
NormalizeColName(name) ==
    IF name = Null THEN Empty
    ELSE CollapseWhitespace(Strip(RemoveChars(name, {"BOM"})))

\* _normalize_key
NormalizeKey(text) == RemoveChars(Lower(text), {".", " "})

\* _ISO_TS_RE matches at position i: \d{4}-\d{2}-\d{2}[T ]\d{2}:\d{2}
IsoTsAt(s, i) ==
    /\ i + 15 <= Len(s)
    /\ \A k \in {0, 1, 2, 3, 5, 6, 8, 9, 11, 12, 14, 15} : s[i + k] \in Digits
    /\ s[i + 4] = "-" /\ s[i + 7] = "-"
    /\ s[i + 10] \in {"T", " "}
    /\ s[i + 13] = ":"

\* _ISO_TS_RE.search(text)
IsoTsSearch(s) == \E i \in 1..Len(s) : IsoTsAt(s, i)

\* _is_junk_column
IsJunkColumn(name) ==
    \/ name = Empty
    \/ StartsWith(Lower(name), <<"u", "n", "n", "a", "m", "e", "d">>)
    \/ StartsWith(NormalizeKey(name), <<"n", "a", "n">>)
    \/ WfHeaderSearch(name)
    \/ Lower(name) = <<"r", "e", "s", "u", "l", "t", "a", "d", "o">>
    \/ Contains(name, <<":", "\\">>)
    \/ IsoTsSearch(name)

\* _map_special_columns
MapSpecialColumns(name) ==
    LET lower == Lower(name)
        key == NormalizeKey(name)
    IN  IF key \in { <<"s", "o", "u", "r", "c", "e", "f", "i", "l", "e">>,
                     <<"s", "o", "u", "r", "c", "e", "_", "f", "i", "l", "e">>,
                     <<"a", "r", "q", "u", "i", "v", "o", "o", "r", "i", "g", "e", "m">>,
                     <<"a", "r", "q", "u", "i", "v", "o", "_", "o", "r", "i", "g", "e", "m">> }
        THEN ColSourceFile
        ELSE IF /\ EndsWith(lower, <<"i", "l", "e">>)
                /\ (Contains(lower, <<"s", "o", "u", "r", "c", "e">>)
                    \/ Contains(lower, <<"a", "r", "q", "u", "i", "v", "o">>))
        THEN ColSourceFile
        ELSE name

\* expected_map / tech_map lookup: the canonical name of a key, or Empty
CanonicalOf(norm_key) ==
    LET all == EXPECTED_WMS_COLUMNS \o TECH_COLUMNS
        hits == SelectSeq(all, LAMBDA c : NormalizeKey(c) = norm_key)
    IN  IF hits = <<>> THEN Empty ELSE hits[1]

\* the name a raw label is kept under, or Empty when the column is dropped
KeptName(label) ==
    LET norm == NormalizeColName(label)
    IN  IF norm = Empty THEN Empty
        ELSE LET mapped == MapSpecialColumns(norm)
             IN  IF IsJunkColumn(mapped) THEN Empty
                 ELSE CanonicalOf(NormalizeKey(mapped))

\* _normalize_columns: keep the mapped columns, then the first of each name
NormalizeColumns(df) ==
    LET names == Tuple([i \in 1..Len(df.cols) |-> KeptName(df.cols[i])])
        keep == SelectSeq([i \in 1..Len(df.cols) |-> i],
                          LAMBDA i : /\ names[i] # Empty
                                     /\ \A q \in 1..(i - 1) : names[q] # names[i])
    IN  [cols |-> Tuple([k \in 1..Len(keep) |-> names[keep[k]]]),
         rows |-> Tuple([r \in 1..NRows(df) |-> Tuple([k \in 1..Len(keep) |-> df.rows[r][keep[k]]])])]

\* a cell that replace(r"^\s*$", pd.NA) leaves null
IsBlankCell(v) == v = Null \/ \A k \in 1..Len(v) : v[k] \in Whitespace

\* _drop_fully_empty_rows (df.empty: no rows or no columns)
DropFullyEmptyRows(df) ==
    IF df.cols = <<>> \/ df.rows = <<>>
    THEN df
    ELSE [df EXCEPT !.rows = SelectSeq(df.rows, LAMBDA row : ~(\A k \in 1..Len(row) : IsBlankCell(row[k])))]

\* _ensure_schema
EnsureSchema(df) ==
    LET ordered == EXPECTED_WMS_COLUMNS \o TECH_COLUMNS
        src == Tuple([k \in 1..Len(ordered) |-> IF HasCol(df, ordered[k]) THEN ColIdx(df, ordered[k]) ELSE 0])
    IN  [cols |-> ordered,
         rows |-> Tuple([r \in 1..NRows(df) |->
                     Tuple([k \in 1..Len(ordered) |->
                         IF src[k] # 0 THEN df.rows[r][src[k]] ELSE Null])])]

DateColumns == {ColDataInicial, ColDataFinal, ColDataTarefa}

\* _clean_date_columns
CleanDateColumns(df) ==
    [df EXCEPT !.rows =
        Tuple([r \in 1..NRows(df) |->
            Tuple([k \in 1..Len(df.cols) |->
                IF df.cols[k] \in DateColumns /\ df.rows[r][k] # Null
                THEN Strip(df.rows[r][k])
                ELSE df.rows[r][k]])])]

\* _clean_dataframe
CleanDataframe(df) == CleanDateColumns(EnsureSchema(DropFullyEmptyRows(NormalizeColumns(df))))

\* _ensure_required_columns raises
RequiredColumnMissing(df) == ~HasCol(df, ColTarefa)

\* read_data_file: the frame it returns, or ReadRaised.  The sniffer may
\* raise; the reader raises on a file no encoding / engine can read, and a
\* workbook read with sheet_name=None yields a dict of frames, on which
\* _clean_dataframe raises.
ReadRaised == [raised |-> TRUE, df |-> NoFrame, sheet |-> NoneValue]

ReadDataFile(f) ==
    LET sniff == DetectHeaderRow(f)
    IN  IF f.suffix \notin {".csv", ".xlsx", ".xlsm", ".xls"} THEN ReadRaised
        ELSE IF sniff.raised THEN ReadRaised
        ELSE IF ~f.opens THEN ReadRaised
        ELSE IF f.suffix # ".csv" /\ sniff.sheet = NoneValue THEN ReadRaised
        ELSE LET df == CleanDataframe([cols |-> f.header, rows |-> f.rows])
             IN  IF RequiredColumnMissing(df) THEN ReadRaised
                 ELSE [raised |-> FALSE, df |-> df, sheet |-> sniff.sheet]

-----------------------------------------------------------------------------
(* Specification of _clean_dataframe applied to a raw frame and then to    *)
(* its own output.                                                         *)
LabelTarefaLoose == <<"BOM", " ", "t", "a", "r", "e", "f", "a", " ">>
LabelUnknown == <<"f", "o", "o">>
LabelUnnamed == <<"U", "n", "n", "a", "m", "e", "d", ":", " ", "0">>
LabelSourceFile == <<"S", "o", "u", "r", "c", "e", " ", "F", "i", "l", "e">>

\* header rows as read_csv / read_excel hand them over
ReconcileHeaders ==
    { <<LabelTarefaLoose, ColDataInicial>>,
      <<ColDataFinal, LabelTarefaLoose>>,
      <<LabelTarefaLoose, ColTarefa>>,
      <<LabelSourceFile, LabelUnnamed>>,
      <<LabelUnknown, LabelUnnamed>>,
      <<LabelUnknown>>,
      <<ColLote, LabelUnknown>> }

\* cells: null, blank, text, padded text
ReconcileCells == { Null, <<" ">>, TextX, <<" ", "x", " ">> }

ReconcileFrames ==
    UNION { {[cols |-> h, rows |-> rs] :
                rs \in SeqsUpTo([1..Len(h) -> ReconcileCells], MaxReconcileRows)} :
            h \in ReconcileHeaders }

InitReconcile ==
    /\ big0 \in ReconcileFrames
    /\ big = big0
    /\ phase = "raw"
    /\ WrIdle /\ SnIdle /\ LdIdle /\ PbIdle

\* df = _clean_dataframe(df) on the frame the reader parsed
CallCleanDataframe ==
    /\ phase = "raw"
    /\ big' = CleanDataframe(big)
    /\ phase' = "reconciled"
    /\ UNCHANGED <<big0, wrVars, snVars, ldVars, pbVars>>

\* _clean_dataframe on a reconciled frame: big0 is now the frame handed in
CallCleanDataframeAgain ==
    /\ phase = "reconciled"
    /\ big0' = big
    /\ big' = CleanDataframe(big)
    /\ phase' = "reconciled_again"
    /\ UNCHANGED <<wrVars, snVars, ldVars, pbVars>>

NextReconcile == CallCleanDataframe \/ CallCleanDataframeAgain

SpecReconcile == InitReconcile /\ [][NextReconcile]_vars

\* C11: the Column Reconciler is idempotent: its output has the 23 expected
\* columns followed by the 4 technical ones, and reconciling that output
\* again yields the same columns in the same order and the same rows.
C11_ReconcilerIdempotent ==
    /\ phase \in {"reconciled", "reconciled_again"} => big.cols = EXPECTED_WMS_COLUMNS \o TECH_COLUMNS
    /\ phase = "reconciled_again" => (big.cols = big0.cols /\ big.rows = big0.rows)

-----------------------------------------------------------------------------
(* The Date Normalizer (loader.py).  pandas.to_datetime and dateutil are   *)
(* libraries; the model parses the two forms the bounded inputs use, the   *)
(* canonical YYYY-MM-DD HH:MM:SS and the same without seconds, and rejects *)
(* everything else.  A timestamp is held as its canonical text, NaT as     *)
(* Null.                                                                   *)
ParseDatetime(v) ==
    IF v = Null THEN Null
    ELSE LET t == Strip(v)
         IN  IF t \in { Empty, <<"N", "o", "n", "e">>, <<"n", "a", "n">>, <<"N", "a", "T">>, <<"N", "U", "L", "L">> }
             THEN Null
             ELSE IF Len(t) = 19 /\ IsoTsAt(t, 1) /\ t[17] = ":" /\ t[18] \in Digits /\ t[19] \in Digits
             THEN [t EXCEPT ![11] = " "]
             ELSE IF Len(t) = 16 /\ IsoTsAt(t, 1)
             THEN [t EXCEPT ![11] = " "] \o <<":", "0", "0">>
             ELSE Null

\* _dt_series_to_iso, one value
DtSeriesToIso(v, parsed) == IF parsed # Null THEN parsed ELSE v

\* _normalize_dt_cols(big, ["Data inicial", "Data final", "Data tarefa"])
NormalizeDtCols(df) ==
    [df EXCEPT !.rows =
        Tuple([r \in 1..NRows(df) |->
            Tuple([k \in 1..Len(df.cols) |->
                IF df.cols[k] \in DateColumns
                THEN DtSeriesToIso(df.rows[r][k], ParseDatetime(df.rows[r][k]))
                ELSE df.rows[r][k]])])]

\* _compute_dt_ref_dt, one row (already as strftime renders it)
ComputeDtRef(df, r) ==
    LET di_dt == IF HasCol(df, ColDataInicial) THEN ParseDatetime(df.rows[r][ColIdx(df, ColDataInicial)]) ELSE Null
        df_dt == IF HasCol(df, ColDataFinal) THEN ParseDatetime(df.rows[r][ColIdx(df, ColDataFinal)]) ELSE Null
    IN  IF di_dt # Null THEN di_dt ELSE df_dt

\* df[c] = vals: replaces the column, or appends it
WithColumn(df, c, vals) ==
    IF HasCol(df, c)
    THEN [df EXCEPT !.rows = Tuple([r \in 1..NRows(df) |-> [df.rows[r] EXCEPT ![ColIdx(df, c)] = vals[r]]])]
    ELSE [cols |-> Append(df.cols, c),
          rows |-> Tuple([r \in 1..NRows(df) |-> Append(df.rows[r], vals[r])])]

ConstColumn(df, c, v) == WithColumn(df, c, [r \in 1..NRows(df) |-> v])

WithDtRef(df) == WithColumn(df, ColDtRef, [r \in 1..NRows(df) |-> ComputeDtRef(df, r)])

-----------------------------------------------------------------------------
(* load_folder_to_table and main.                                          *)
AddAuditCols == TRUE
NowCell == <<"<now>">>
MtimeCell == <<"<mtime>">>

\* the body of the per-file try block after read_any: audit columns, dt_ref
PerFileFrame(f, read) ==
    LET a == IF AddAuditCols
             THEN ConstColumn(ConstColumn(ConstColumn(ConstColumn(ConstColumn(ConstColumn(read.df,
                      ColArquivoOrigem, <<f.name>>),
                      ColDtCarga, NowCell),
                      ColSourceFile, <<f.name>>),
                      ColSourceMtime, MtimeCell),
                      ColLoadedAt, NowCell),
                      ColSourceSheet, IF read.sheet = NoneValue THEN Null ELSE <<read.sheet>>)
             ELSE read.df
    IN  WithDtRef(a)

\* pd.concat(frames, ignore_index=True); every frame has the same columns
RECURSIVE ConcatRows(_)
ConcatRows(fs) == IF fs = <<>> THEN <<>> ELSE Head(fs).rows \o ConcatRows(Tail(fs))

Concat(fs) == [cols |-> fs[1].cols, rows |-> ConcatRows(fs)]

\* lines 181-231: consolidate, normalise dates, cross fallback, dt_ref, dedup
BatchPass(fs) == DropDuplicates(WithDtRef(ApplyCrossDateFallback(NormalizeDtCols(Concat(fs)))))

TableNames == <<"fato_entrada", "fato_saida", "fato_picking">>

\* the record every return statement of load_folder_to_table builds
Result(t, o, f, n, st) == [table |-> t, files_ok |-> o, files_fail |-> f, rows |-> n, status |-> st]

\* files_fail of the early return taken when no frame was read
EmptyResultFail(f) == 0

\* what read_csv / read_excel hand over for header=header_row
RawFrame(f, header_row) ==
    [cols |-> f.lines[header_row + 1],
     rows |-> SubSeq(f.lines, header_row + 2, Len(f.lines))]

\* read_data_file on a discovered file
ReadAny(f) ==
    LET sniff == DetectHeaderRow(f)
    IN  ReadDataFile([f EXCEPT !.header = RawFrame(f, IF sniff.raised THEN 0 ELSE sniff.header_row).cols,
                               !.rows = RawFrame(f, IF sniff.raised THEN 0 ELSE sniff.header_row).rows])

Iso16 == <<"2", "0", "2", "4", "-", "0", "2", "-", "0", "2", " ", "0", "8", ":", "0", "0">>

\* The files a folder may hold, in name order.
LoadFiles ==
    << \* a.csv: loose header labels, a junk column, two rows that become
       \* duplicates once dates are normalised and cross-filled, a blank row
       [name |-> "a.csv", suffix |-> ".csv", opens |-> TRUE, sheets |-> 0, probe |-> 3,
        first |-> ColTarefa, header |-> <<>>, rows |-> <<>>,
        lines |-> << << <<"BOM", "T", "A", "R", "E", "F", "A", " ">>, <<"d", "a", "t", "a", " ", " ", "i", "n", "i", "c", "i", "a", "l">>, ColDataFinal, ColLote, <<"U", "n", "n", "a", "m", "e", "d", ":", " ", "4">> >>,
                     << Txt1, Iso16, Empty, TxtA, Empty >>,
                     << Empty, <<" ">>, Empty, Empty, Empty >>,
                     << Txt1, IsoDate, IsoDate, TxtB, Empty >> >>],
       \* b.csv: no Tarefa column
       [name |-> "b.csv", suffix |-> ".csv", opens |-> TRUE, sheets |-> 0, probe |-> 3,
        first |-> ColTipo, header |-> <<>>, rows |-> <<>>,
        lines |-> << << ColTipo, ColLote >>, << TextX, TxtA >> >>],
       \* c.csv: no encoding reads it
       [name |-> "c.csv", suffix |-> ".csv", opens |-> FALSE, sheets |-> 0, probe |-> 0,
        first |-> Empty, header |-> <<>>, rows |-> <<>>, lines |-> << <<>> >>],
       \* d.xlsx: a workbook that cannot be opened
       [name |-> "d.xlsx", suffix |-> ".xlsx", opens |-> FALSE, sheets |-> 0, probe |-> 0,
        first |-> Empty, header |-> <<>>, rows |-> <<>>, lines |-> << <<>> >>],
       \* e.xlsx: banner in A1, header on the second row
       [name |-> "e.xlsx", suffix |-> ".xlsx", opens |-> TRUE, sheets |-> 1, probe |-> 0,
        first |-> BannerWf, header |-> <<>>, rows |-> <<>>,
        lines |-> << << BannerWf, Null >>, << ColTarefa, ColDataFinal >>, << Txt2, IsoDate >> >>] >>

RECURSIVE SortedSeq(_)
SortedSeq(S) ==
    IF S = {} THEN <<>>
    ELSE LET m == CHOOSE x \in S : \A y \in S : x <= y
         IN  <<m>> \o SortedSeq(S \ {m})

\* what list_data_files may return: at most MaxFiles files, sorted by name
FolderContents ==
    { [k \in 1..Cardinality(S) |-> LoadFiles[SortedSeq(S)[k]]] :
        S \in {T \in SUBSET (1..Len(LoadFiles)) : Cardinality(T) <= MaxFiles} }

\* a store file: whether it exists, and its tables (NoFrame: no such table)
NoDb == [exists |-> FALSE, tables |-> [t \in Range(TableNames) |-> NoFrame]]

OldFrame ==
    [cols |-> EXPECTED_WMS_COLUMNS \o TECH_COLUMNS \o <<ColArquivoOrigem, ColDtCarga, ColDtRef>>,
     rows |-> << [k \in 1..30 |-> IF k = 1 THEN <<"9">> ELSE IF k \in {24, 28} THEN <<"old.csv">> ELSE Null] >>]

OldDb == [exists |-> TRUE, tables |-> [t \in Range(TableNames) |-> OldFrame]]

InitLoad ==
    /\ mpc = "start"
    /\ tbl = 1
    /\ folderExists = <<>>
    /\ files = <<>> /\ fidx = 0 /\ ok = 0 /\ fail = 0 /\ frames = <<>>
    /\ results = <<>>
    /\ stageDb \in {NoDb, OldDb}
    /\ finalDb = OldDb
    /\ FnIdle /\ WrIdle /\ SnIdle /\ PbIdle

ldRest == <<fnVars, wrVars, snVars, pbVars>>

\* main, lines 23-28: the stale staging file is unlinked; a failure is ignored
UnlinkStage ==
    /\ mpc = "start"
    /\ \/ (stageDb.exists /\ stageDb' = NoDb)
       \/ UNCHANGED stageDb
    /\ mpc' = "list"
    /\ UNCHANGED <<tbl, folderExists, files, fidx, ok, fail, frames, results, finalDb, ldRest>>

\* load_folder_to_table, line 136: list_data_files raises FileNotFoundError
\* for a missing folder; nothing catches it, in load_folder_to_table or main
ListDataFiles ==
    /\ mpc = "list"
    /\ \E exists \in BOOLEAN, fs \in FolderContents :
          /\ folderExists' = Append(folderExists, exists)
          /\ IF exists
             THEN /\ files' = fs
                  /\ mpc' = "read"
             ELSE /\ files' = <<>>
                  /\ mpc' = "raised_FileNotFoundError"
    /\ fidx' = 1 /\ ok' = 0 /\ fail' = 0 /\ frames' = <<>>
    /\ UNCHANGED <<tbl, results, stageDb, finalDb, ldRest>>

\* one turn of the loop over files, lines 142-174
ReadFile ==
    /\ mpc = "read"
    /\ fidx <= Len(files)
    /\ LET read == ReadAny(files[fidx])
       IN  IF read.raised
           THEN /\ fail' = fail + 1
                /\ UNCHANGED <<ok, frames>>
           ELSE /\ frames' = Append(frames, PerFileFrame(files[fidx], read))
                /\ ok' = ok + 1
                /\ UNCHANGED fail
    /\ fidx' = fidx + 1
    /\ UNCHANGED <<mpc, tbl, folderExists, files, results, stageDb, finalDb, ldRest>>

\* where main goes after a load returns
AfterLoad ==
    /\ IF tbl < Len(TableNames)
       THEN tbl' = tbl + 1 /\ mpc' = "list"
       ELSE tbl' = tbl /\ mpc' = "indexes"

\* lines 178-179: no frame was read
ReturnEmpty ==
    /\ mpc = "read"
    /\ fidx > Len(files)
    /\ frames = <<>>
    /\ results' = Append(results, Result(TableNames[tbl], 0, EmptyResultFail(fail), 0, "empty"))
    /\ AfterLoad
    /\ UNCHANGED <<folderExists, files, fidx, ok, fail, frames, stageDb, finalDb, ldRest>>

\* lines 181-245: batch pass, to_sql(if_exists="replace"), the ok record
WriteTable ==
    /\ mpc = "read"
    /\ fidx > Len(files)
    /\ frames # <<>>
    /\ LET out == BatchPass(frames)
       IN  /\ stageDb' = [exists |-> TRUE, tables |-> [stageDb.tables EXCEPT ![TableNames[tbl]] = out]]
           /\ results' = Append(results, Result(TableNames[tbl], ok, fail, NRows(out), "ok"))
    /\ frames' = <<>>
    /\ AfterLoad
    /\ UNCHANGED <<folderExists, files, fidx, ok, fail, finalDb, ldRest>>

\* ensure_indexes: connecting creates the staging file; an index on a missing
\* table raises OperationalError, which is skipped
EnsureIndexes ==
    /\ mpc = "indexes"
    /\ stageDb' = [stageDb EXCEPT !.exists = TRUE]
    /\ mpc' = "publish"
    /\ UNCHANGED <<tbl, folderExists, files, fidx, ok, fail, frames, results, finalDb, ldRest>>

\* publish_sqlite_stage_to_final: the outcome of _copy_replace (SpecPublish
\* has its steps): the final store replaced, or PermissionError after the
\* last attempt
Publish ==
    /\ mpc = "publish"
    /\ \/ (finalDb' = stageDb /\ mpc' = "done")
       \/ (finalDb' = finalDb /\ mpc' = "raised_PermissionError")
    /\ UNCHANGED <<tbl, folderExists, files, fidx, ok, fail, frames, results, stageDb, ldRest>>

NextLoad ==
    \/ UnlinkStage
    \/ ListDataFiles
    \/ ReadFile
    \/ ReturnEmpty
    \/ WriteTable
    \/ EnsureIndexes
    \/ Publish

SpecLoad == InitLoad /\ [][NextLoad]_vars

\* load_folder_to_table has just returned: files is still its listing and the
\* last record of results is the one it returned
Returned ==
    /\ results # <<>>
    /\ mpc \in {"list", "indexes", "publish", "done", "raised_PermissionError"}

LastResult == results[Len(results)]

\* a file none of whose labels is the identifier column, however written
C4_LacksTarefa(f) ==
    \A n \in 1..Len(f.lines) : \A k \in 1..Len(f.lines[n]) :
        f.lines[n][k] = Null \/ NormalizeKey(NormalizeColName(f.lines[n][k])) # <<"t", "a", "r", "e", "f", "a">>

\* C4: a file without the Tarefa column fails to read (schema error), so it is
\* not counted in files_ok and none of its rows reaches the table; a folder
\* holding only such files returns files_ok = 0, rows = 0.
C4_MissingTarefaFails ==
    Returned =>
        LET lacking == {i \in 1..Len(files) : C4_LacksTarefa(files[i])}
            table == stageDb.tables[LastResult.table]
        IN  /\ LastResult.files_ok <= Len(files) - Cardinality(lacking)
            /\ (lacking # {} /\ LastResult.status = "ok") =>
                   \A r \in 1..NRows(table), i \in lacking :
                       table.rows[r][ColIdx(table, ColArquivoOrigem)] # <<files[i].name>>
            /\ (files # <<>> /\ Cardinality(lacking) = Len(files)) =>
                   (LastResult.files_ok = 0 /\ LastResult.rows = 0)

\* C5: the record load_folder_to_table returns counts the files read in
\* files_ok and the files whose read raised in files_fail, so that they add
\* up to the number of discovered files; when every read raised the record
\* is files_ok = 0, files_fail = n, rows = 0, status "empty".
C5_ResultCountsFiles ==
    Returned =>
        LET raised == {i \in 1..Len(files) : ReadAny(files[i]).raised}
        IN  /\ LastResult.files_ok = Len(files) - Cardinality(raised)
            /\ LastResult.files_fail = Cardinality(raised)
            /\ LastResult.files_ok + LastResult.files_fail = Len(files)
            /\ Cardinality(raised) = Len(files) =>
                   LastResult = Result(LastResult.table, 0, Len(files), 0, "empty")

\* C6: a missing source folder does not abort the run: its load returns a
\* record with status "empty" and the run goes on.
C6_MissingFolderIsEmpty ==
    /\ mpc # "raised_FileNotFoundError"
    /\ \A t \in 1..Len(folderExists) :
          (~folderExists[t] /\ Len(results) >= t) => results[t].status = "empty"

\* C12: once a run has loaded a table, the table in the staging store holds
\* only rows read from the files of that load, never a row an earlier run
\* left there, whatever the load returned and whether or not the old staging
\* file could be deleted; the same holds for the final store once published.
C12_TablesHoldLatestRunOnly ==
    /\ Returned =>
           LET table == stageDb.tables[LastResult.table]
           IN  \A r \in 1..NRows(table) :
                   \E i \in 1..Len(files) :
                       table.rows[r][ColIdx(table, ColArquivoOrigem)] = <<files[i].name>>
    /\ \A t \in 1..Len(results) :
           OldFrame.rows[1] \notin Range(stageDb.tables[TableNames[t]].rows)
    /\ mpc = "done" =>
           \A t \in 1..Len(TableNames) :
               OldFrame.rows[1] \notin Range(finalDb.tables[TableNames[t]].rows)

-----------------------------------------------------------------------------
(* The Publisher: publish_sqlite_stage_to_final and _copy_replace          *)
(* (loader.py).  A file is an inode holding a sequence of chunks; a path   *)
(* names an inode (0: no such file).  shutil.copy2 opens the destination   *)
(* for writing, which creates it or truncates it, and writes the source    *)
(* chunk by chunk through its own handle; Path.replace moves the inode of  *)
(* one path onto another in one step.  Each step may instead raise         *)
(* PermissionError (a lock on the network share).  The platform decides    *)
(* what an open handle forbids: on "posix" nothing, on "nt" a file that a  *)
(* process holds open cannot be renamed (sharing violation, raised as      *)
(* PermissionError), while a second process may still open and write it.   *)
\* range(1, 7): one attempt too many
AttemptsOffByOne == 5 + 1

\* for attempt in range(1, 6)
Attempts == 5
Procs == {1, 2}
Inodes == {1, 2, 3, 4}
NoHandle == [ino |-> 0, pos |-> 0]
Absent == <<"absent">>

\* the complete content of publisher p's staging store (p = 0: the version
\* published before)
Content(p) == [k \in 1..NChunks |-> <<p, k>>]

\* tmp = dst.with_suffix(".tmp") taken as the destination itself
TmpPathIsDst(dst) == dst

\* tmp = dst.with_suffix(".tmp"): a sibling that depends on dst alone
TmpPath(dst) == "tmp"

FileAt(path) == IF paths[path] = 0 THEN Absent ELSE inodes[paths[path]]
FinalContent == FileAt("final")

\* inodes no path and no handle refers to are reclaimed
Referenced(ps, hs) == {ps[q] : q \in DOMAIN ps} \cup {hs[p].ino : p \in Procs}
Reclaim(ino, ps, hs) == [i \in Inodes |-> IF i \in Referenced(ps, hs) THEN ino[i] ELSE <<>>]

\* a chunk written at offset pos of a file (a hole is filled with zeros)
WriteAt(content, pos, chunk) ==
    [k \in 1..Max(Len(content), pos + 1) |->
        IF k = pos + 1 THEN chunk
        ELSE IF k <= Len(content) THEN content[k]
        ELSE <<0, 0>>]

pbRest == <<fnVars, wrVars, snVars, ldVars>>

InitPublishers(active) ==
    /\ pc = [p \in Procs |-> IF p \in active THEN "call" ELSE "off"]
    /\ attempt = [p \in Procs |-> 1]
    /\ stage \in [Procs -> {Absent} \cup {Content(p) : p \in Procs}]
    /\ \A p \in Procs : stage[p] = IF p \in active THEN stage[p] ELSE Absent
    /\ \A p \in active : stage[p] \in {Absent, Content(p)}
    /\ \E old \in {0, 1}, stale \in {0, 2} :
          \* the final store may exist; a crashed run may have left its
          \* half-written temporary file behind
          /\ paths = [final |-> old, tmp |-> stale]
          /\ inodes = [i \in Inodes |->
                          IF i = old THEN Content(0)
                          ELSE IF i = stale THEN << <<0, 1>> >>
                          ELSE <<>>]
          /\ prevFinal = IF old = 0 THEN Absent ELSE Content(0)
    /\ handle = [p \in Procs |-> NoHandle]
    /\ os \in {"posix", "nt"}
    /\ FnIdle /\ WrIdle /\ SnIdle /\ LdIdle

\* publish_sqlite_stage_to_final, lines 270-272
PublishCall(p) ==
    /\ pc[p] = "call"
    /\ pc' = [pc EXCEPT ![p] = IF stage[p] = Absent THEN "raised_FileNotFoundError" ELSE "open"]
    /\ UNCHANGED <<attempt, stage, paths, inodes, handle, prevFinal, os, pbRest>>

\* except PermissionError: sleep and take the next attempt, or leave the loop
\* and raise
AfterPermissionError(p) ==
    IF attempt[p] < Attempts
    THEN /\ attempt' = [attempt EXCEPT ![p] = attempt[p] + 1]
         /\ pc' = [pc EXCEPT ![p] = "open"]
    ELSE /\ attempt' = attempt
         /\ pc' = [pc EXCEPT ![p] = "raised_PermissionError"]

\* shutil.copy2 opens the temporary file for writing
OpenTmp(p) ==
    /\ pc[p] = "open"
    /\ LET tmp == TmpPath("final")
       IN  IF paths[tmp] # 0
           THEN /\ inodes' = [inodes EXCEPT ![paths[tmp]] = <<>>]
                /\ handle' = [handle EXCEPT ![p] = [ino |-> paths[tmp], pos |-> 0]]
                /\ paths' = paths
           ELSE LET new == CHOOSE i \in Inodes : i \notin Referenced(paths, handle)
                IN  /\ paths' = [paths EXCEPT ![tmp] = new]
                    /\ inodes' = [inodes EXCEPT ![new] = <<>>]
                    /\ handle' = [handle EXCEPT ![p] = [ino |-> new, pos |-> 0]]
    /\ pc' = [pc EXCEPT ![p] = "write"]
    /\ UNCHANGED <<attempt, stage, prevFinal, os, pbRest>>

\* shutil.copy2 writes the next chunk; after the last one the file is closed
WriteChunk(p) ==
    /\ pc[p] = "write"
    /\ LET h == handle[p]
           last == h.pos + 1 = Len(stage[p])
           hs == [handle EXCEPT ![p] = IF last THEN NoHandle ELSE [h EXCEPT !.pos = h.pos + 1]]
       IN  /\ handle' = hs
           /\ inodes' = Reclaim([inodes EXCEPT ![h.ino] = WriteAt(inodes[h.ino], h.pos, stage[p][h.pos + 1])], paths, hs)
           /\ pc' = [pc EXCEPT ![p] = IF last THEN "rename" ELSE "write"]
    /\ UNCHANGED <<attempt, stage, paths, prevFinal, os, pbRest>>

\* tmp.replace(dst); a temporary file that is gone raises FileNotFoundError,
\* which the loop does not catch
ReplaceDst(p) ==
    /\ pc[p] = "rename"
    /\ LET tmp == TmpPath("final")
       IN  IF paths[tmp] = 0
           THEN /\ pc' = [pc EXCEPT ![p] = "raised_FileNotFoundError"]
                /\ UNCHANGED <<paths, inodes>>
           ELSE LET ps == IF tmp = "final" THEN paths ELSE [paths EXCEPT !["final"] = paths[tmp], ![tmp] = 0]
                IN  /\ (os = "posix" \/ \A q \in Procs : handle[q].ino # paths[tmp])
                    /\ paths' = ps
                    /\ inodes' = Reclaim(inodes, ps, handle)
                    /\ pc' = [pc EXCEPT ![p] = "done"]
    /\ UNCHANGED <<attempt, stage, handle, prevFinal, os, pbRest>>

\* PermissionError while opening the temporary file: nothing was written
OpenFails(p) ==
    /\ pc[p] = "open"
    /\ AfterPermissionError(p)
    /\ UNCHANGED <<stage, paths, inodes, handle, prevFinal, os, pbRest>>

\* PermissionError in the middle of the copy: the handle is closed, the
\* temporary file keeps what was written
WriteFails(p) ==
    /\ pc[p] = "write"
    /\ handle' = [handle EXCEPT ![p] = NoHandle]
    /\ inodes' = Reclaim(inodes, paths, handle')
    /\ AfterPermissionError(p)
    /\ UNCHANGED <<stage, paths, prevFinal, os, pbRest>>

\* PermissionError from the rename: the destination is locked
ReplaceFails(p) ==
    /\ pc[p] = "rename"
    /\ AfterPermissionError(p)
    /\ UNCHANGED <<stage, paths, inodes, handle, prevFinal, os, pbRest>>

NextPublish ==
    \E p \in Procs :
        \/ PublishCall(p)
        \/ OpenTmp(p)
        \/ WriteChunk(p)
        \/ ReplaceDst(p)
        \/ OpenFails(p)
        \/ WriteFails(p)
        \/ ReplaceFails(p)

\* one Publisher
InitPublish == InitPublishers({1})
SpecPublish == InitPublish /\ [][NextPublish]_vars

\* two Publishers of unrelated runs on the same final path
InitConcurrent == InitPublishers({1, 2})
SpecConcurrent == InitConcurrent /\ [][NextPublish]_vars

\* the complete versions the final path may hold: the one published before,
\* or the staging content of a Publisher
CompleteVersions == {prevFinal} \cup {stage[p] : p \in {q \in Procs : pc[q] # "off"}}

\* C1: at every step of a Publisher's run, failed attempts included, the file
\* at the final path is the complete previous version or the complete new
\* staging content, and only the rename changes it.
C1_FinalReplacedWholesale ==
    [][ /\ FinalContent \in CompleteVersions
        /\ FinalContent' \in CompleteVersions'
        /\ (FinalContent' # FinalContent) =>
               \E p \in Procs : pc[p] = "rename" /\ pc'[p] = "done" ]_vars

\* C1 witness: the previous version was replaced by the staging content on a
\* later attempt, after attempts that failed.
C1_Witness ==
    /\ pc[1] = "done"
    /\ attempt[1] >= 3
    /\ prevFinal = Content(0)
    /\ FinalContent = Content(1)

\* C3: the Publisher makes at most 5 attempts; it ends without error, the
\* final file equal to the staging file, as soon as one attempt succeeds, and
\* ends with the publish error only when the fifth attempt has failed, after
\* which nothing more is done.
C3_BoundedRetry ==
    /\ attempt[1] \in 1..5
    /\ pc[1] = "done" => (FinalContent = stage[1] /\ stage[1] # Absent)
    /\ pc[1] = "raised_PermissionError" => (attempt[1] = 5 /\ FinalContent = prevFinal)
    /\ pc[1] \in {"done", "raised_PermissionError"} => ~ENABLED NextPublish

\* C3 witness: attempts 1-4 failed and the fifth published the staging file.
C3_Witness ==
    /\ pc[1] = "done"
    /\ attempt[1] = 5
    /\ FinalContent = Content(1)

\* C2: with two Publishers on the same final path, the final path never
\* holds a half-written file, and once both have finished it holds the
\* complete staging content of one that published.
C2_ConcurrentPublishers ==
    /\ FinalContent \in CompleteVersions
    /\ ( /\ \A p \in Procs : pc[p] \in {"done", "raised_PermissionError", "raised_FileNotFoundError"}
         /\ \E p \in Procs : pc[p] = "done" )
       => \E p \in Procs : pc[p] = "done" /\ FinalContent = stage[p]

====
